---------------------------- MODULE Spec2Model ----------------------------
(***************************************************************************)
(* Interaction state machine of the nested menu (class Menu with submenus, *)
(* src/unnamed/part_000 lines 28-492).                                     *)
(*                                                                         *)
(* The document holds two independent menu trees:                          *)
(*                                                                         *)
(*   root A:  trigger tA, list with items a1, a2;                          *)
(*            a1 is the trigger of submenu S (radio items s1, s2, no       *)
(*            group element of their own); S's root (the parent element    *)
(*            of a1, holding a1 and S's list) lies inside a role="group"   *)
(*            element gA of A's list;                                      *)
(*   root T:  no trigger (always-visible list) with items t1, t2, t3;      *)
(*            t1 is the trigger of submenu U (radio items u1, u2 inside    *)
(*            a group element gU of U's list); t2, t3 are radio items      *)
(*            with no enclosing group; t2 is aria-disabled.                *)
(*                                                                         *)
(* Every event handler runs to completion (single UI thread), so each      *)
(* handler is one action; requestAnimationFrame callbacks, animation       *)
(* finish events, hover timers and position promises are in-flight         *)
(* messages delivered by actions of their own.                             *)
(***************************************************************************)
EXTENDS Integers, Sequences, FiniteSets, TLC

(***************************************************************************)
(* Bounds of the model.                                                    *)
(***************************************************************************)
\* A new user-level event is taken only while fewer than MaxFrames
\* requestAnimationFrame callbacks are pending.
MaxFrames == 2

(***************************************************************************)
(* The document (fixed markup).                                            *)
(***************************************************************************)
Body == "body"          \* document.body: the active element when nothing is focused
NoElement == "null"     \* a missing element / null relatedTarget
NoTimer == "0"          \* submenuTimer = 0: no handle

\* Menu.menus in registration order: a submenu is pushed while its parent
\* initializes, hence before the parent.
menus == <<"S", "A", "U", "T">>
MenuSet == {"S", "A", "U", "T"}

\* document 'pointerdown' listeners, in addEventListener order (the parent's
\* is added before its submenus are constructed).
pointerDownOrder == <<"A", "S", "T", "U">>

isSubmenu(m) == m \in {"S", "U"}

triggerElement(m) ==
  CASE m = "A" -> "tA"
    [] m = "S" -> "a1"
    [] m = "U" -> "t1"
    [] OTHER -> NoElement

itemElements(m) ==
  CASE m = "A" -> <<"a1", "a2">>
    [] m = "S" -> <<"s1", "s2">>
    [] m = "T" -> <<"t1", "t2", "t3">>
    [] m = "U" -> <<"u1", "u2">>

submenus(m) ==
  CASE m = "A" -> <<"S">>
    [] m = "T" -> <<"U">>
    [] OTHER -> <<>>

Range(seq) == {seq[k] : k \in 1..Len(seq)}

Items == UNION {Range(itemElements(m)) : m \in MenuSet}
Elements == Items \cup {"tA"}
HasTrigger(m) == triggerElement(m) # NoElement
Triggered == {m \in MenuSet : HasTrigger(m)}
TopLevel == {m \in MenuSet : ~isSubmenu(m)}

\* rootElement.contains(el): the elements inside each instance's root.
RootElements(m) ==
  CASE m = "A" -> {"tA", "a1", "a2", "s1", "s2"}
    [] m = "S" -> {"a1", "s1", "s2"}
    [] m = "T" -> {"t1", "t2", "t3", "u1", "u2"}
    [] m = "U" -> {"t1", "u1", "u2"}

\* The elements inside each instance's list element.
ListElements(m) ==
  CASE m = "A" -> {"a1", "a2", "s1", "s2"}
    [] m = "S" -> {"s1", "s2"}
    [] m = "T" -> {"t1", "t2", "t3", "u1", "u2"}
    [] m = "U" -> {"u1", "u2"}

\* a.rootElement.contains(b.rootElement)
RootContainsRoot(a, b) ==
  \/ a = b
  \/ a = "A" /\ b = "S"
  \/ a = "T" /\ b = "U"

Related(a, b) == RootContainsRoot(a, b) \/ RootContainsRoot(b, a)

\* Instances along the bubbling path of an event on el, innermost first:
\* those whose root contains el, and those whose list contains el.
RootChain(el) ==
  CASE el \in {"a1", "s1", "s2"} -> <<"S", "A">>
    [] el \in {"tA", "a2"} -> <<"A">>
    [] el \in {"t1", "u1", "u2"} -> <<"U", "T">>
    [] el \in {"t2", "t3"} -> <<"T">>
    [] OTHER -> <<>>

ListChain(el) ==
  CASE el \in {"s1", "s2"} -> <<"S", "A">>
    [] el \in {"a1", "a2"} -> <<"A">>
    [] el \in {"u1", "u2"} -> <<"U", "T">>
    [] el \in {"t1", "t2", "t3"} -> <<"T">>
    [] OTHER -> <<>>

\* The instance whose itemElements holds el.
Owner(el) == CHOOSE m \in MenuSet : el \in Range(itemElements(m))

\* The instance(s) whose trigger is el.
TriggerOf(el) == {m \in Triggered : triggerElement(m) = el}

\* Items carrying aria-disabled="true".
Disabled == {"t2"}

\* First character of each item's text, lowercased.
Initial(el) ==
  CASE el \in {"a1", "s1", "s2", "t1", "t3"} -> "a"
    [] OTHER -> "b"

\* Radio items (role="menuitemradio") and the closest role="group" ancestor
\* of each in the document (NoElement when there is none).
RadioItems == {"s1", "s2", "u1", "u2", "t2", "t3"}

\* Checkbox items (role="menuitemcheckbox").
CheckboxItems == {"a2"}

\* The items that carry aria-checked.
CheckedItems == RadioItems \cup CheckboxItems

ClosestGroup(el) ==
  CASE el \in {"s1", "s2"} -> "gA"
    [] el \in {"u1", "u2"} -> "gU"
    [] OTHER -> NoElement

\* rootElement.contains(group) for the group elements of the document.
RootContainsGroup(m, g) ==
  \/ m = "A" /\ g = "gA"
  \/ m \in {"T", "U"} /\ g = "gU"


(***************************************************************************)
(* State.                                                                  *)
(***************************************************************************)
VARIABLES
  ariaExpanded,    \* [Triggered -> BOOLEAN]: the trigger's aria-expanded attribute
  display,         \* [MenuSet -> {"none","block"}]: whether the list is displayed
  opacity,         \* [MenuSet -> {"", "0"}]: the list's inline opacity
  animation,       \* [MenuSet -> {"null","open","close"}]: this.animation in flight
  cleanupPopover,  \* [MenuSet -> BOOLEAN]: this.cleanupPopover holds a teardown
  subscriptions,   \* [MenuSet -> Nat]: autoUpdate subscriptions of the instance
                   \* that were created and not torn down
  placement,       \* [MenuSet -> BOOLEAN]: data-menu-placement (and transform-origin) set
  computing,       \* instances with an unresolved computePosition promise
  frames,          \* pending requestAnimationFrame callbacks, <<instance, value>>
  submenuTimer,    \* [MenuSet -> Items \cup {NoTimer}]: the stored timer handle
  timers,          \* [MenuSet -> SUBSET Items]: live hover timers, by hovered item
  tabindex,        \* [Items -> {"0","-1"}]
  activeElement,   \* document.activeElement
  ariaChecked,     \* [CheckedItems -> {"", "true", "false"}] ("": no attribute)
  closeFocus,      \* what the last handler's effective close of a parent whose
                   \* open submenu held focus left focused: "none" (no such
                   \* close), "trigger" or "elsewhere"
  clicked,         \* the radio or checkbox item whose click listener ran
                   \* last (NoElement: none yet)
  leftItem,        \* the item the last handler's pointerout was dispatched on
                   \* (NoElement: the last handler was no pointerout)
  hoverLeft,       \* items whose hover timer is still live although the pointer
                   \* left them after it was armed
  lastKey,         \* the key of the keydown the last handler was dispatched
                   \* for, when it was an observed key press ("none" otherwise)
  keyTarget,       \* the element that had focus when that key was pressed
  lastCall,        \* the open() or close() the last handler was, as
                   \* <<instance, open>>, when it was an observed call (<<>>
                   \* otherwise)
  built,           \* a further root handed to new Menu(root): its markup, what
                   \* the constructor did to it and the state of its list
                   \* (NoRoot: the page holds no such root)
  lite             \* a page of button menus (class Menu of src/menu.ts): the
                   \* aria-expanded of each button, Menu.hasOpen, the focused
                   \* element and the pending frame callbacks (NoLite: the
                   \* page holds no such menus)

vars == <<ariaExpanded, display, opacity, animation, cleanupPopover,
          subscriptions, placement,
          computing, frames, submenuTimer, timers, tabindex, activeElement,
          ariaChecked, closeFocus, clicked, leftItem, hoverLeft, lastKey,
          keyTarget, lastCall, built, lite>>

\* The variables of the constructed menus S, A, U and T.
menuVars == <<ariaExpanded, display, opacity, animation, cleanupPopover,
              subscriptions, placement,
              computing, frames, submenuTimer, timers, tabindex, activeElement,
              ariaChecked, closeFocus, clicked, leftItem, hoverLeft, lastKey,
              keyTarget, lastCall>>

NoRoot == [phase |-> "none"]

NoLite == [page |-> "none"]

\* What a page can observe of the menus: attributes, styles, focus,
\* animations, subscriptions, timers (callbacks and promises still pending
\* are left out).
domVars == <<ariaExpanded, display, opacity, animation, cleanupPopover,
             subscriptions, placement,
             submenuTimer, timers, tabindex, activeElement, ariaChecked>>

\* The state as one record, threaded through the handlers.
State ==
  [ariaExpanded |-> ariaExpanded, display |-> display, opacity |-> opacity,
   animation |-> animation, cleanupPopover |-> cleanupPopover,
   subscriptions |-> subscriptions,
   placement |-> placement, computing |-> computing, frames |-> frames,
   submenuTimer |-> submenuTimer, timers |-> timers, tabindex |-> tabindex,
   activeElement |-> activeElement, ariaChecked |-> ariaChecked,
   closeFocus |-> "none", clicked |-> clicked, leftItem |-> NoElement,
   hoverLeft |-> hoverLeft, lastKey |-> "none", keyTarget |-> NoElement,
   lastCall |-> <<>>]

Commit(s) ==
  /\ ariaExpanded' = s.ariaExpanded
  /\ display' = s.display
  /\ opacity' = s.opacity
  /\ animation' = s.animation
  /\ cleanupPopover' = s.cleanupPopover
  /\ subscriptions' = s.subscriptions
  /\ placement' = s.placement
  /\ computing' = s.computing
  /\ frames' = s.frames
  /\ submenuTimer' = s.submenuTimer
  /\ timers' = s.timers
  /\ tabindex' = s.tabindex
  /\ activeElement' = s.activeElement
  /\ ariaChecked' = s.ariaChecked
  /\ closeFocus' = s.closeFocus
  /\ clicked' = s.clicked
  /\ leftItem' = s.leftItem
  /\ hoverLeft' = {i \in s.hoverLeft : \E m \in MenuSet : i \in s.timers[m]}
  /\ lastKey' = s.lastKey
  /\ keyTarget' = s.keyTarget
  /\ lastCall' = s.lastCall
  /\ built' = built
  /\ lite' = lite

(***************************************************************************)
(* Helpers of the class.                                                   *)
(***************************************************************************)
isFocusable(el) == el \notin Disabled

\* A filter that keeps every item, focusable or not.
everyItemOf(m) == itemElements(m)

focusablesOf(m) == SelectSeq(itemElements(m), isFocusable)

IndexOf(seq, el) ==
  IF el \in Range(seq) THEN CHOOSE k \in 1..Len(seq) : seq[k] = el ELSE 0

\* An element can take focus only while it is rendered: every list around
\* it is displayed.
Rendered(s, el) ==
  /\ el \in Elements
  /\ \A m \in MenuSet : el \in ListElements(m) => s.display[m] = "block"

resetTabIndex(s, m, force) ==
  IF HasTrigger(m) \/ force
  THEN [s EXCEPT !.tabindex =
          [i \in Items |-> IF i \in Range(itemElements(m)) THEN "-1" ELSE @[i]]]
  ELSE LET fs == focusablesOf(m)
           first == IF fs = <<>> THEN NoElement ELSE Head(fs)
       IN [s EXCEPT !.tabindex =
             [i \in Items |-> IF i \in Range(itemElements(m))
                              THEN (IF i = first THEN "0" ELSE "-1")
                              ELSE @[i]]]

handleItemBlur(s, el) ==
  IF el \in Items THEN [s EXCEPT !.tabindex[el] = "-1"] ELSE s

handleItemFocus(s, el) ==
  IF el \in Items THEN [s EXCEPT !.tabindex[el] = "0"] ELSE s

handleRootFocusIn(s, m, related) ==
  IF related \in RootElements(m) /\ s.activeElement \in RootElements(m)
  THEN s
  ELSE resetTabIndex(s, m, TRUE)

RECURSIVE FocusInEach(_, _, _)
FocusInEach(s, ms, related) ==
  IF ms = <<>> THEN s
  ELSE FocusInEach(handleRootFocusIn(s, Head(ms), related), Tail(ms), related)

(***************************************************************************)
(* Timers and positioning.                                                 *)
(***************************************************************************)
\* window.clearTimeout(this.submenuTimer): the timer the handle names, if it
\* is still live, is removed.  Timer ids are never reused, so a handle whose
\* timer is dead is inert and is represented as NoTimer.
clearTimeout(s, m) ==
  [s EXCEPT !.timers[m] = @ \ {s.submenuTimer[m]}, !.submenuTimer[m] = NoTimer]

\* An updatePopover that subscribes autoUpdate on every call.
updatePopoverAlwaysSubscribes(s, m) ==
  [s EXCEPT !.computing = @ \cup {m}, !.cleanupPopover[m] = TRUE,
            !.subscriptions[m] = @ + 1]

\* compute() starts a computePosition promise; autoUpdate is subscribed
\* unless this.cleanupPopover already holds a teardown.
updatePopover(s, m) ==
  [s EXCEPT !.computing = @ \cup {m}, !.cleanupPopover[m] = TRUE,
            !.subscriptions[m] = IF s.cleanupPopover[m] THEN @ ELSE @ + 1]

(***************************************************************************)
(* focus() and toggle().                                                   *)
(*                                                                         *)
(* element.focus() dispatches synchronously, in this order: blur and       *)
(* focusout on the element losing focus (document.activeElement is the     *)
(* body meanwhile), then focus and focusin on the element gaining it.      *)
(* blur/focus reach the item's own listener; focusout/focusin bubble       *)
(* through the roots around it, innermost first.                           *)
(***************************************************************************)
RECURSIVE toggle(_, _, _), focus(_, _), CloseEach(_, _), FocusOutEach(_, _, _)

handleRootFocusOut(s, m, related) ==
  IF related \in RootElements(m)
  THEN s
  ELSE toggle(resetTabIndex(s, m, FALSE), m, FALSE)

FocusOutEach(s, ms, related) ==
  IF ms = <<>> THEN s
  ELSE FocusOutEach(handleRootFocusOut(s, Head(ms), related), Tail(ms), related)

focus(s, el) ==
  IF el = s.activeElement \/ (el # Body /\ ~Rendered(s, el))
  THEN s
  ELSE LET old == s.activeElement
           s1 == handleItemBlur([s EXCEPT !.activeElement = Body], old)
           s2 == FocusOutEach(s1, RootChain(old), IF el = Body THEN NoElement ELSE el)
       IN IF el = Body
          THEN s2
          ELSE LET s3 == handleItemFocus([s2 EXCEPT !.activeElement = el], el)
               IN FocusInEach(s3, RootChain(el), IF old = Body THEN NoElement ELSE old)

\* A focus return that looks for the focused element among the instance's
\* own items only (not in the whole root).
returnFocusFromOwnItems(s, m) ==
  IF HasTrigger(m) /\ s.activeElement \in Range(itemElements(m))
  THEN focus(s, triggerElement(m))
  ELSE s

\* The close branch's focus return: focus inside the root goes to the trigger.
returnFocus(s, m) ==
  IF HasTrigger(m) /\ s.activeElement \in RootElements(m)
  THEN focus(s, triggerElement(m))
  ELSE s

\* An aria-expanded update written at once instead of in the next frame.
writeExpandedNow(s, m, open) == [s EXCEPT !.ariaExpanded[m] = open]

\* window.requestAnimationFrame(() => trigger.setAttribute('aria-expanded',
\* String(open))): one callback is queued for the next frame.
requestExpanded(s, m, open) == [s EXCEPT !.frames = Append(@, <<m, open>>)]

\* A transition started without cancelling the one in flight: the running
\* animation and its 'finish' listener stay.
startAnimationKeepsRunning(s, m, open) ==
  [s EXCEPT !.animation[m] = IF @ # "null" THEN @
                             ELSE IF open THEN "open" ELSE "close"]

\* this.animation?.cancel(), then this.animation = listElement.animate(...):
\* the animation in flight is cancelled (its 'finish' never fires) and the
\* new one, with its 'finish' listener, takes its place.
startAnimation(s, m, open) ==
  [s EXCEPT !.animation[m] = IF open THEN "open" ELSE "close"]

\* menu => menu.close(), over a list of instances in order.
CloseEach(s, ms) ==
  IF ms = <<>> THEN s
  ELSE CloseEach(toggle(s, Head(ms), FALSE), Tail(ms))

\* Menu.menus.filter(menu => !menu.rootElement.contains(this.rootElement))
SweepTargets(m) == SelectSeq(menus, LAMBDA x : ~RootContainsRoot(x, m))

\* The record of what an effective close of m left focused, when focus was
\* inside a displayed submenu of m on entry.
NoteCloseFocus(entry, exit, m) ==
  IF /\ HasTrigger(m)
     /\ \E k \in 1..Len(submenus(m)) :
          /\ entry.activeElement \in RootElements(submenus(m)[k])
          /\ entry.display[submenus(m)[k]] = "block"
  THEN [exit EXCEPT !.closeFocus =
          IF exit.activeElement = triggerElement(m) /\ @ # "elsewhere"
          THEN "trigger" ELSE "elsewhere"]
  ELSE exit

toggle(s, m, open) ==
  IF HasTrigger(m) /\ s.ariaExpanded[m] = open
  THEN s
  ELSE
    LET s1 == IF HasTrigger(m) THEN requestExpanded(s, m, open) ELSE s
        s2 == IF open
              THEN LET a == CloseEach(s1, SweepTargets(m))
                       b == [a EXCEPT !.display[m] = "block", !.opacity[m] = "0"]
                       c == IF HasTrigger(m) THEN updatePopover(b, m) ELSE b
                       fs == focusablesOf(m)
                   IN IF fs # <<>> THEN focus(c, Head(fs)) ELSE c
              ELSE LET a == IF submenus(m) # <<>>
                            THEN CloseEach(clearTimeout(s1, m), submenus(m))
                            ELSE s1
                   IN NoteCloseFocus(s, returnFocus(a, m), m)
    IN IF ~HasTrigger(m)
       THEN s2
       ELSE [startAnimation(s2, m, open)
               EXCEPT !.cleanupPopover[m] = IF open THEN @ ELSE FALSE,
                      !.subscriptions[m] =
                        IF ~open /\ s2.cleanupPopover[m] THEN @ - 1 ELSE @]

(***************************************************************************)
(* Radio items.                                                            *)
(***************************************************************************)
RootKey(m) == "root"

\* The group each radio item is filed under by the constructor.
ConstructedGroup(m, item) ==
  IF ClosestGroup(item) = NoElement \/ ~RootContainsGroup(m, ClosestGroup(item))
  THEN RootKey(m)
  ELSE ClosestGroup(item)

radioItemElements(m) == SelectSeq(itemElements(m), LAMBDA i : i \in RadioItems)

radioItemElementsByGroup(m) ==
  [g \in {ConstructedGroup(m, i) : i \in Range(radioItemElements(m))} |->
     SelectSeq(radioItemElements(m), LAMBDA i : ConstructedGroup(m, i) = g)]

\* The key the click handler looks up.
ClickedGroup(m, target) ==
  IF ClosestGroup(target) # NoElement THEN ClosestGroup(target) ELSE RootKey(m)

handleRadioItemClick(s0, target) ==
  LET m == Owner(target)
      map == radioItemElementsByGroup(m)
      key == ClickedGroup(m, target)
      s == [s0 EXCEPT !.clicked = target]
  IN IF key \notin DOMAIN map
     THEN s     \* Map.get gives undefined: forEach throws, nothing is written
     ELSE [s EXCEPT !.ariaChecked =
             [i \in CheckedItems |->
                IF i \in Range(map[key])
                THEN (IF i = target THEN "true" ELSE "false")
                ELSE @[i]]]

\* String(item.getAttribute('aria-checked') === 'false')
handleCheckboxItemClick(s, item) ==
  [s EXCEPT !.clicked = item,
            !.ariaChecked[item] = IF @ = "false" THEN "true" ELSE "false"]

(***************************************************************************)
(* Click and key handlers.                                                 *)
(***************************************************************************)
handleTriggerClick(s, m) ==
  IF ~isSubmenu(m)
  THEN toggle(s, m, ~s.ariaExpanded[m])
  ELSE toggle(s, m, TRUE)     \* this.triggerElement === event.currentTarget

\* The click listeners of el: a trigger's, a checkbox item's, a radio item's.
dispatchClick(s, el) ==
  LET s1 == IF TriggerOf(el) # {}
            THEN handleTriggerClick(s, CHOOSE m \in TriggerOf(el) : TRUE)
            ELSE s
      s2 == IF el \in CheckboxItems THEN handleCheckboxItemClick(s1, el) ELSE s1
  IN IF el \in RadioItems THEN handleRadioItemClick(s2, el) ELSE s2

\* Keys with a single printable character that the model presses.
TypeKeys == {"a", "b"}

\* The keys the model presses.  Space is left out: every test of the
\* handlers treats " " exactly as "Enter".
PressedKeys == {"Enter", "Escape", "Tab", "End", "Home", "ArrowUp", "ArrowDown",
                "ArrowLeft", "ArrowRight"} \cup TypeKeys

\* Key handlers give the new state and whether propagation was stopped.
handleTriggerKeyDown(s, m, key) ==
  LET allowed == {"Enter", " "} \cup
                 (IF ~isSubmenu(m) THEN {"ArrowUp", "ArrowDown"} ELSE {"ArrowRight"})
  IN IF key \notin allowed
     THEN [s |-> s, stop |-> FALSE]
     ELSE LET s1 == toggle(s, m, TRUE)
              fs == focusablesOf(m)
              s2 == IF fs = <<>> THEN s1
                    ELSE CASE key \in {"Enter", " "} -> dispatchClick(s1, triggerElement(m))
                           [] key = "ArrowUp" -> focus(s1, fs[Len(fs)])
                           [] key = "ArrowRight" -> s1
                           [] key = "ArrowDown" -> focus(s1, fs[1])
          IN [s |-> s2, stop |-> TRUE]

\* An index that files every item under every character.
itemElementsUnderAnyInitial(m, c) == itemElements(m)

itemElementsByInitial(m, c) == SelectSeq(itemElements(m), LAMBDA i : Initial(i) = c)

handleListKeyDown(s, m, key, shift) ==
  IF ~HasTrigger(m) /\ shift /\ key = "Tab"
  THEN [s |-> s, stop |-> FALSE]
  ELSE
    LET keys == {"Tab", "Enter", "Escape", " ", "End", "Home", "ArrowUp", "ArrowDown"}
                \cup (IF isSubmenu(m) THEN {"ArrowLeft"} ELSE {})
        byInitial == SelectSeq(itemElementsByInitial(m, key), isFocusable)
        typeahead == key \in TypeKeys /\ byInitial # <<>>
    IN IF key \notin keys /\ ~(shift /\ key = "Tab") /\ ~typeahead
       THEN [s |-> s, stop |-> FALSE]
       ELSE IF ~shift /\ key = "Tab"
       THEN [s |-> s, stop |-> FALSE]
       ELSE
         LET fs == focusablesOf(m)
             length == Len(fs)
             current == s.activeElement
             currentIndex == IndexOf(fs, current)     \* 1-based; 0 is "not found"
             found == {k \in 1..Len(byInitial) : IndexOf(fs, byInitial[k]) > currentIndex}
             s1 == IF currentIndex = 0 THEN s
                   ELSE CASE key \in {"Tab", "Escape", "ArrowLeft"} -> toggle(s, m, FALSE)
                          [] key \in {"Enter", " "} -> dispatchClick(s, current)
                          [] key = "End" -> focus(s, fs[length])
                          [] key = "Home" -> focus(s, fs[1])
                          [] key = "ArrowUp" ->
                               focus(s, fs[((currentIndex - 1 - 1 + length) % length) + 1])
                          [] key = "ArrowDown" ->
                               focus(s, fs[((currentIndex - 1 + 1) % length) + 1])
                          [] OTHER ->
                               focus(s, byInitial[IF found # {}
                                                  THEN CHOOSE k \in found : \A j \in found : k <= j
                                                  ELSE 1])
         IN [s |-> s1, stop |-> ~shift]

RECURSIVE ListKeyEach(_, _, _, _)
ListKeyEach(r, ms, key, shift) ==
  IF ms = <<>> \/ r.stop THEN r
  ELSE ListKeyEach(handleListKeyDown(r.s, Head(ms), key, shift), Tail(ms), key, shift)

\* A keydown on target: the trigger's listener (if target is a trigger), then
\* the listeners of the lists around it, until propagation is stopped.
dispatchKeyDown(s, target, key, shift) ==
  LET r0 == IF TriggerOf(target) # {}
            THEN handleTriggerKeyDown(s, CHOOSE m \in TriggerOf(target) : TRUE, key)
            ELSE [s |-> s, stop |-> FALSE]
  IN ListKeyEach(r0, ListChain(target), key, shift).s

handleOutsidePointerDown(s, m, target) ==
  IF target \in RootElements(m) \/ ~HasTrigger(m)
  THEN s
  ELSE toggle(resetTabIndex(s, m, FALSE), m, FALSE)

RECURSIVE PointerDownEach(_, _, _)
PointerDownEach(s, ms, target) ==
  IF ms = <<>> THEN s
  ELSE PointerDownEach(handleOutsidePointerDown(s, Head(ms), target), Tail(ms), target)

(***************************************************************************)
(* Hover intent.                                                           *)
(***************************************************************************)
\* A pointerout listener that leaves the armed timer alone.
handleItemPointerOutKeepsTimer(s, m) == s

handleItemPointerOut(s, m) == clearTimeout(s, m)

handleItemPointerOver(s, m, item) ==
  LET s1 == clearTimeout(s, m)
  IN [s1 EXCEPT !.timers[m] = @ \cup {item}, !.submenuTimer[m] = item]

RECURSIVE ToggleEach(_, _, _)
ToggleEach(s, ms, item) ==
  IF ms = <<>> THEN s
  ELSE ToggleEach(toggle(s, Head(ms), triggerElement(Head(ms)) = item), Tail(ms), item)

\* The setTimeout callback armed for item on instance m.
timerCallback(s, m, item) ==
  LET s0 == [s EXCEPT !.timers[m] = @ \ {item},
                      !.submenuTimer[m] = IF @ = item THEN NoTimer ELSE @]
      s1 == ToggleEach(s0, submenus(m), item)
      s2 == [s1 EXCEPT !.tabindex[item] = "0"]
  IN focus(s2, item)

(***************************************************************************)
(* Initial state: the document after both roots were constructed.          *)
(***************************************************************************)
\* The page's stylesheet hides the list of a menu that has a trigger; the
\* list of a trigger-less menu is always shown.
Blank ==
  [ariaExpanded |-> [m \in Triggered |-> FALSE],
   display |-> [m \in MenuSet |-> IF HasTrigger(m) THEN "none" ELSE "block"],
   opacity |-> [m \in MenuSet |-> ""],
   animation |-> [m \in MenuSet |-> "null"],
   cleanupPopover |-> [m \in MenuSet |-> FALSE],
   subscriptions |-> [m \in MenuSet |-> 0],
   placement |-> [m \in MenuSet |-> FALSE],
   computing |-> {},
   frames |-> <<>>,
   submenuTimer |-> [m \in MenuSet |-> NoTimer],
   timers |-> [m \in MenuSet |-> {}],
   tabindex |-> [i \in Items |-> "-1"],
   activeElement |-> Body,
   ariaChecked |-> [i \in CheckedItems |-> ""],
   closeFocus |-> "none",
   clicked |-> NoElement,
   leftItem |-> NoElement,
   hoverLeft |-> {},
   lastKey |-> "none",
   keyTarget |-> NoElement,
   lastCall |-> <<>>]

RECURSIVE InitializeEach(_, _)
InitializeEach(s, ms) ==
  IF ms = <<>> THEN s
  ELSE InitializeEach(resetTabIndex(s, Head(ms), FALSE), Tail(ms))

\* initialize() ends with resetTabIndex(); instances finish in the order of
\* Menu.menus.
Constructed == InitializeEach(Blank, menus)

Init ==
  /\ ariaExpanded = Constructed.ariaExpanded
  /\ display = Constructed.display
  /\ opacity = Constructed.opacity
  /\ animation = Constructed.animation
  /\ cleanupPopover = Constructed.cleanupPopover
  /\ subscriptions = Constructed.subscriptions
  /\ placement = Constructed.placement
  /\ computing = Constructed.computing
  /\ frames = Constructed.frames
  /\ submenuTimer = Constructed.submenuTimer
  /\ timers = Constructed.timers
  /\ tabindex = Constructed.tabindex
  /\ activeElement = Constructed.activeElement
  /\ ariaChecked = Constructed.ariaChecked
  /\ closeFocus = Constructed.closeFocus
  /\ clicked = Constructed.clicked
  /\ leftItem = Constructed.leftItem
  /\ hoverLeft = Constructed.hoverLeft
  /\ lastKey = Constructed.lastKey
  /\ keyTarget = Constructed.keyTarget
  /\ lastCall = Constructed.lastCall
  /\ built = NoRoot
  /\ lite = NoLite

(***************************************************************************)
(* Actions.                                                                *)
(*                                                                         *)
(* A user event is its own task: it is taken when no position promise is   *)
(* unresolved (promises resolve in the microtasks that end the task that   *)
(* started them).  A call of the public open()/close() may come from page  *)
(* script in the same task as an earlier call.                             *)
(***************************************************************************)
NewTask == computing = {} /\ Len(frames) < MaxFrames

\* menu.open() / menu.close() called by the page on an instance it constructed.
OpenCall(m) ==
  /\ Len(frames) < MaxFrames
  /\ Commit(toggle(State, m, TRUE))

CloseCall(m) ==
  /\ Len(frames) < MaxFrames
  /\ Commit(toggle(State, m, FALSE))

\* The next animation frame: every pending callback runs, in order.
RECURSIVE RunCallbacks(_, _)
RunCallbacks(expanded, fs) ==
  IF fs = <<>> THEN expanded
  ELSE RunCallbacks([expanded EXCEPT ![Head(fs)[1]] = Head(fs)[2]], Tail(fs))

RunFrame ==
  /\ computing = {}
  /\ frames # <<>>
  /\ Commit([State EXCEPT !.ariaExpanded = RunCallbacks(@, frames), !.frames = <<>>])

\* A 'finish' listener that leaves the inline opacity set at open.
finishAnimationKeepsOpacity(s, m) ==
  IF s.animation[m] = "close"
  THEN [s EXCEPT !.animation[m] = "null", !.placement[m] = FALSE,
                 !.display[m] = "none"]
  ELSE [s EXCEPT !.animation[m] = "null"]

\* A 'finish' listener that leaves the placement attribute and
\* transform-origin on the list.
finishAnimationKeepsPlacement(s, m) ==
  IF s.animation[m] = "close"
  THEN [s EXCEPT !.animation[m] = "null", !.display[m] = "none", !.opacity[m] = ""]
  ELSE [s EXCEPT !.animation[m] = "null", !.opacity[m] = ""]

\* The 'finish' event of the animation in flight on m.
finishAnimation(s, m) ==
  IF s.animation[m] = "close"
  THEN [s EXCEPT !.animation[m] = "null", !.placement[m] = FALSE,
                 !.display[m] = "none", !.opacity[m] = ""]
  ELSE [s EXCEPT !.animation[m] = "null", !.opacity[m] = ""]

\* When the focused element stops being rendered, browsers differ: focus
\* moves to the body without events, or with blur/focusout dispatched, or
\* (no focus fixup) document.activeElement stays on the hidden element.
FocusFixups == {"silent", "events", "kept"}

FocusFixup(s, how) ==
  IF s.activeElement \in Elements /\ ~Rendered(s, s.activeElement)
  THEN CASE how = "events" -> focus(s, Body)
         [] how = "silent" -> [s EXCEPT !.activeElement = Body]
         [] OTHER -> s
  ELSE s

AnimationFinish(m) ==
  /\ computing = {}
  /\ animation[m] # "null"
  /\ \E how \in FocusFixups : Commit(FocusFixup(finishAnimation(State, m), how))

\* A computePosition promise resolves: coordinates, placement attribute and
\* transform-origin are written.
ResolveCompute(m) ==
  /\ m \in computing
  /\ Commit([State EXCEPT !.computing = @ \ {m}, !.placement[m] = TRUE])

\* A pointerdown anywhere in the document (Body: outside every menu).
PointerDown(target) ==
  /\ NewTask
  /\ target = Body \/ Rendered(State, target)
  /\ Commit(PointerDownEach(State, pointerDownOrder, target))

\* Focus moved by the user (Tab, click) to a rendered element or away.
UserFocus(el) ==
  /\ NewTask
  /\ el # activeElement
  /\ el = Body \/ Rendered(State, el)
  /\ Commit(focus(State, el))

\* A click on a rendered element.
Click(el) ==
  /\ NewTask
  /\ Rendered(State, el)
  /\ el \notin CheckedItems
  /\ Commit(dispatchClick(State, el))

\* A key pressed while a rendered element of the document has focus.
KeyDown(key, shift) ==
  /\ NewTask
  /\ Rendered(State, activeElement)
  /\ ~(key \in {"Enter", " "} /\ activeElement \in CheckedItems)
  /\ Commit(dispatchKeyDown(State, activeElement, key, shift))

\* The pointer is over one element at a time: it comes over an item only
\* after it left the item it was over (or that item stopped being rendered,
\* which dispatches no pointerout), and it leaves the item it is over.  A
\* pointerout while no timer is live changes nothing and is not modelled.
PointerOver(m, item) ==
  /\ NewTask
  /\ item \in Range(itemElements(m))
  /\ Rendered(State, item)
  /\ \A m2 \in MenuSet : \A i2 \in timers[m2] : ~Rendered(State, i2)
  /\ Commit([handleItemPointerOver(State, m, item) EXCEPT !.hoverLeft = @ \ {item}])

PointerOut(m, item) ==
  /\ NewTask
  /\ item \in timers[m]
  /\ Rendered(State, item)
  /\ Commit([handleItemPointerOut(State, m) EXCEPT !.hoverLeft = @ \cup {item},
                                                   !.leftItem = item])

TimerFire(m, item) ==
  /\ NewTask
  /\ item \in timers[m]
  /\ Commit(timerCallback(State, m, item))

Next ==
  \/ \E m \in TopLevel : OpenCall(m)
  \/ \E m \in TopLevel : CloseCall(m)
  \/ RunFrame
  \/ \E m \in Triggered : AnimationFinish(m)
  \/ \E m \in Triggered : ResolveCompute(m)
  \/ \E el \in Elements \cup {Body} : PointerDown(el)
  \/ \E el \in Elements \cup {Body} : UserFocus(el)
  \/ \E el \in Elements : Click(el)
  \/ \E key \in PressedKeys, shift \in BOOLEAN : KeyDown(key, shift)

Spec == Init /\ [][Next]_vars

(***************************************************************************)
(* The menus under a pointer: the hover-intent timer with the calls,       *)
(* clicks and keys that open and close menus around it.                    *)
(***************************************************************************)
HoverKeys == {"Escape", "ArrowLeft", "ArrowRight"}

\* The pointer stays over the tree of root A.
HoverMenus == {"A", "S"}

HoverElements == UNION {RootElements(m) : m \in HoverMenus}

NextHover ==
  \/ \E m \in TopLevel \cap HoverMenus : OpenCall(m)
  \/ \E m \in TopLevel \cap HoverMenus : CloseCall(m)
  \/ RunFrame
  \/ \E m \in Triggered : AnimationFinish(m)
  \/ \E m \in Triggered : ResolveCompute(m)
  \/ PointerDown(Body)
  \/ \E el \in HoverElements : Click(el)
  \/ \E key \in HoverKeys : KeyDown(key, FALSE)
  \/ \E m \in HoverMenus, item \in Items : PointerOver(m, item)
  \/ \E m \in HoverMenus, item \in Items : PointerOut(m, item)
  \/ \E m \in HoverMenus, item \in Items : TimerFire(m, item)

SpecHover == Init /\ [][NextHover]_vars

(***************************************************************************)
(* The menus under the keyboard: every key press is observed (the key and  *)
(* the element it was pressed on are recorded), with the calls, focus      *)
(* moves, frames and animations around it.                                 *)
(***************************************************************************)
\* A keyboard user brings focus into a menu through its tab stop: the
\* trigger of a top-level instance, the first item of a trigger-less one.
TabStops == {"tA", "t1"}

\* The keys a keyboard user presses with Shift held.
ShiftedKeys == {"Tab"}

KeyPress(key, shift) ==
  /\ NewTask
  /\ Rendered(State, activeElement)
  /\ ~(key \in {"Enter", " "} /\ activeElement \in CheckedItems)
  /\ Commit([dispatchKeyDown(State, activeElement, key, shift)
               EXCEPT !.lastKey = key, !.keyTarget = activeElement])

NextKeys ==
  \/ \E m \in TopLevel : OpenCall(m)
  \/ \E m \in TopLevel : CloseCall(m)
  \/ RunFrame
  \/ \E m \in Triggered : AnimationFinish(m)
  \/ \E m \in Triggered : ResolveCompute(m)
  \/ \E el \in TabStops \cup {Body} : UserFocus(el)
  \/ \E key \in PressedKeys : KeyPress(key, FALSE)
  \/ \E key \in ShiftedKeys : KeyPress(key, TRUE)

SpecKeys == Init /\ [][NextKeys]_vars

(***************************************************************************)
(* Calls of the public methods on their own: page script calls open() and  *)
(* close() at any moment relative to the frame callbacks and transitions.  *)
(***************************************************************************)
\* menu.open() (open = TRUE) or menu.close() called by the page.
Call(m, open) ==
  /\ Len(frames) < MaxFrames
  /\ Commit([toggle(State, m, open) EXCEPT !.lastCall = <<m, open>>])

NextCalls ==
  \/ \E m \in TopLevel, open \in BOOLEAN : Call(m, open)
  \/ RunFrame
  \/ \E m \in Triggered : AnimationFinish(m)
  \/ \E m \in Triggered : ResolveCompute(m)
  \/ \E el \in Elements : Click(el)

SpecCalls == Init /\ [][NextCalls]_vars

(***************************************************************************)
(* Positioning on its own: while an instance holds its autoUpdate          *)
(* subscription, a scroll, resize or layout change makes the subscription  *)
(* call compute() again; page script may call open()/close() from a        *)
(* listener of the same event, before the position promise resolves.       *)
(***************************************************************************)
\* The autoUpdate subscription of m calls compute().
AutoUpdate(m) ==
  /\ NewTask
  /\ cleanupPopover[m]
  /\ Commit([State EXCEPT !.computing = @ \cup {m}])

NextPopover ==
  \/ \E m \in TopLevel : OpenCall(m)
  \/ \E m \in TopLevel : CloseCall(m)
  \/ RunFrame
  \/ \E m \in Triggered : AnimationFinish(m)
  \/ \E m \in Triggered : ResolveCompute(m)
  \/ \E m \in Triggered : AutoUpdate(m)
  \/ \E el \in Elements : Click(el)

SpecPopover == Init /\ [][NextPopover]_vars

(***************************************************************************)
(* Radio and checkbox items on their own: the markup may carry any         *)
(* aria-checked values, and click events reach the items (from the         *)
(* pointer, from Enter or Space on the focused item, or from script).      *)
(***************************************************************************)
CheckedValues == {"", "true", "false"}

InitRadio ==
  /\ ariaExpanded = Constructed.ariaExpanded
  /\ display = Constructed.display
  /\ opacity = Constructed.opacity
  /\ animation = Constructed.animation
  /\ cleanupPopover = Constructed.cleanupPopover
  /\ subscriptions = Constructed.subscriptions
  /\ placement = Constructed.placement
  /\ computing = Constructed.computing
  /\ frames = Constructed.frames
  /\ submenuTimer = Constructed.submenuTimer
  /\ timers = Constructed.timers
  /\ tabindex = Constructed.tabindex
  /\ activeElement = Constructed.activeElement
  /\ ariaChecked \in [CheckedItems -> CheckedValues]
  /\ closeFocus = Constructed.closeFocus
  /\ clicked = Constructed.clicked
  /\ leftItem = Constructed.leftItem
  /\ hoverLeft = Constructed.hoverLeft
  /\ lastKey = Constructed.lastKey
  /\ keyTarget = Constructed.keyTarget
  /\ lastCall = Constructed.lastCall
  /\ built = NoRoot
  /\ lite = NoLite

\* The click listeners of a radio item run.
RadioClick(el) ==
  /\ el \in RadioItems
  /\ Commit(dispatchClick(State, el))

NextRadio == \E el \in RadioItems : RadioClick(el)

SpecRadio == InitRadio /\ [][NextRadio]_vars

\* The click listeners of a checkbox item run.
CheckboxClick(el) ==
  /\ el \in CheckboxItems
  /\ Commit(dispatchClick(State, el))

NextCheckbox == \E el \in CheckboxItems : CheckboxClick(el)

SpecCheckbox == InitRadio /\ [][NextCheckbox]_vars

(***************************************************************************)
(* Construction on its own: new Menu(root) on a root whose markup may lack *)
(* the list, the items or the trigger, then open() and close() on the      *)
(* instance when construction left it without listeners.                   *)
(***************************************************************************)
MaxItems == 2

\* The markup of the root: whether it holds a [role="menu"] list, how many
\* [role^="menuitem"] items the list holds, whether it holds a
\* [data-menu-trigger], and the aria-expanded the author wrote on the
\* trigger ("": none).
Markups ==
  {mk \in [list : BOOLEAN, items : 0..MaxItems, trigger : BOOLEAN,
           expanded : {"", "true", "false"}] :
     /\ ~mk.list => mk.items = 0
     /\ ~mk.trigger => mk.expanded = ""}

\* The root before new Menu(root) runs; the page's stylesheet hides the list
\* of a root that has a trigger.
Unbuilt(mk) ==
  [phase |-> "markup", markup |-> mk, listeners |-> {}, written |-> {},
   registered |-> FALSE, expanded |-> mk.expanded,
   display |-> IF mk.trigger THEN "none" ELSE "block", opacity |-> "",
   animation |-> "null", pending |-> <<>>, subscribed |-> FALSE,
   computing |-> FALSE, placement |-> FALSE]

InitializedListeners(mk) ==
  {"document:pointerdown", "root:focusin", "root:focusout", "list:keydown",
   "item:blur", "item:focus", "item:pointerout", "item:pointerover"}
    \cup (IF mk.trigger THEN {"trigger:click", "trigger:keydown"} ELSE {})

InitializedAttributes(mk) ==
  {"list:role", "item:role", "item:tabindex", "root:data-menu-initialized"}
    \cup (IF mk.trigger
          THEN {"trigger:aria-controls", "trigger:aria-expanded",
                "trigger:aria-haspopup", "trigger:id", "trigger:tabindex",
                "list:id", "list:aria-labelledby"}
          ELSE {})

\* initialize(): returns at once without a list or without items.
initialize(b) ==
  IF ~b.markup.list \/ b.markup.items = 0
  THEN b
  ELSE [b EXCEPT !.listeners = InitializedListeners(b.markup),
                 !.written = @ \cup InitializedAttributes(b.markup),
                 !.registered = TRUE,
                 !.expanded = IF b.markup.trigger THEN "false" ELSE @]

\* The constructor: this.listElement is null when the root holds no list,
\* and reading this.listElement.querySelectorAll then throws a TypeError
\* before initialize() is reached.
constructor(b) ==
  IF ~b.markup.list
  THEN [b EXCEPT !.phase = "threw"]
  ELSE initialize([b EXCEPT !.phase = "constructed",
                            !.written = IF b.markup.items > 0
                                        THEN {"item:aria-keyshortcuts"} ELSE {}])

\* toggle() on an instance that has a list and no items (no submenus, no
\* focusable item; focus inside the root can only be on the trigger already).
toggleInert(b, open) ==
  IF b.markup.trigger /\ b.expanded = (IF open THEN "true" ELSE "false")
  THEN b
  ELSE
    LET b1 == IF b.markup.trigger
              THEN [b EXCEPT !.pending = Append(@, open)]
              ELSE b
        b2 == IF open
              THEN LET c == [b1 EXCEPT !.display = "block", !.opacity = "0"]
                   IN IF b.markup.trigger
                      THEN [c EXCEPT !.computing = TRUE, !.subscribed = TRUE]
                      ELSE c
              ELSE b1
    IN IF ~b.markup.trigger
       THEN b2
       ELSE [b2 EXCEPT !.animation = IF open THEN "open" ELSE "close",
                       !.subscribed = IF open THEN @ ELSE FALSE]

Inert(b) == b.phase = "constructed" /\ b.markup.items = 0

Construct ==
  /\ built.phase = "markup"
  /\ built' = constructor(built)
  /\ UNCHANGED <<menuVars, lite>>

InertOpen ==
  /\ Inert(built)
  /\ Len(built.pending) < MaxFrames
  /\ built' = toggleInert(built, TRUE)
  /\ UNCHANGED <<menuVars, lite>>

InertClose ==
  /\ Inert(built)
  /\ Len(built.pending) < MaxFrames
  /\ built' = toggleInert(built, FALSE)
  /\ UNCHANGED <<menuVars, lite>>

\* The next animation frame: the pending aria-expanded writes run in order.
InertFrame ==
  /\ built.phase = "constructed"
  /\ built.pending # <<>>
  /\ ~built.computing
  /\ built' = [built EXCEPT
                 !.expanded = IF built.pending[Len(built.pending)]
                              THEN "true" ELSE "false",
                 !.pending = <<>>]
  /\ UNCHANGED <<menuVars, lite>>

InertFinish ==
  /\ built.phase = "constructed"
  /\ built.animation # "null"
  /\ ~built.computing
  /\ built' = IF built.animation = "close"
              THEN [built EXCEPT !.animation = "null", !.placement = FALSE,
                                 !.display = "none", !.opacity = ""]
              ELSE [built EXCEPT !.animation = "null", !.opacity = ""]
  /\ UNCHANGED <<menuVars, lite>>

InertResolve ==
  /\ built.phase = "constructed"
  /\ built.computing
  /\ built' = [built EXCEPT !.computing = FALSE, !.placement = TRUE]
  /\ UNCHANGED <<menuVars, lite>>

InitConstruct ==
  /\ ariaExpanded = Blank.ariaExpanded
  /\ display = Blank.display
  /\ opacity = Blank.opacity
  /\ animation = Blank.animation
  /\ cleanupPopover = Blank.cleanupPopover
  /\ subscriptions = Blank.subscriptions
  /\ placement = Blank.placement
  /\ computing = Blank.computing
  /\ frames = Blank.frames
  /\ submenuTimer = Blank.submenuTimer
  /\ timers = Blank.timers
  /\ tabindex = Blank.tabindex
  /\ activeElement = Blank.activeElement
  /\ ariaChecked = Blank.ariaChecked
  /\ closeFocus = Blank.closeFocus
  /\ clicked = Blank.clicked
  /\ leftItem = Blank.leftItem
  /\ hoverLeft = Blank.hoverLeft
  /\ lastKey = Blank.lastKey
  /\ keyTarget = Blank.keyTarget
  /\ lastCall = Blank.lastCall
  /\ \E mk \in Markups : built = Unbuilt(mk)
  /\ lite = NoLite

NextConstruct ==
  \/ Construct
  \/ InertOpen
  \/ InertClose
  \/ InertFrame
  \/ InertFinish
  \/ InertResolve

SpecConstruct == InitConstruct /\ [][NextConstruct]_vars


(***************************************************************************)
(* The button menu (class Menu of src/menu.ts): a page with three roots,   *)
(* each holding a focusable button and a list with one item.  L1 and L2    *)
(* carry data-menu-name="n", L3 carries no name.  The page's stylesheet    *)
(* shows a list while its button's aria-expanded is "true".                *)
(***************************************************************************)
LiteMenus == {"L1", "L2", "L3"}

\* document 'pointerdown' listeners, in construction order.
liteOrder == <<"L1", "L2", "L3">>

NoName == "null"

\* this.name: the root's data-menu-name.
name(k) == IF k \in {"L1", "L2"} THEN "n" ELSE NoName

Names == {name(k) : k \in LiteMenus} \ {NoName}

buttonElement(k) ==
  CASE k = "L1" -> "b1" [] k = "L2" -> "b2" [] k = "L3" -> "b3"

liteItem(k) ==
  CASE k = "L1" -> "i1" [] k = "L2" -> "i2" [] k = "L3" -> "i3"

LiteButtons == {buttonElement(k) : k \in LiteMenus}
LiteElements == LiteButtons \cup {liteItem(k) : k \in LiteMenus}

\* The instance whose root contains el.
LiteRoot(el) == CHOOSE k \in LiteMenus : el \in {buttonElement(k), liteItem(k)}

PointerTypes == {"mouse", "touch"}

\* A button is always rendered, an item while its list is shown.
LiteRendered(l, el) ==
  \/ el \in LiteButtons
  \/ el \in LiteElements \ LiteButtons /\ l.expanded[LiteRoot(el)]

\* The pointer-over the last handler was dispatched for, with what the page
\* held when it was dispatched (NoOver: the last handler was no pointer-over).
NoOver == [menu |-> NoName]

\* The page after the three constructors ran: Menu.hasOpen[name] ||= false.
LiteConstructed ==
  [page |-> "lite",
   expanded |-> [k \in LiteMenus |-> FALSE],
   hasOpen |-> [n \in Names |-> FALSE],
   active |-> Body,
   focusFrames |-> <<>>,
   over |-> NoOver]

toggleLite(l, k, isOpen) ==
  LET l1 == IF name(k) # NoName THEN [l EXCEPT !.hasOpen[name(k)] = isOpen] ELSE l
  IN [l1 EXCEPT !.expanded[k] = isOpen]

openLite(l, k) == IF l.expanded[k] THEN l ELSE toggleLite(l, k, TRUE)

RECURSIVE focusLite(_, _), closeLite(_, _)

\* The 'focusout' listener of root k; relatedTarget is what gains focus.
handleRootFocusOutLite(l, k, related) ==
  IF ~l.expanded[k] THEN l
  ELSE IF related # NoElement /\ LiteRoot(related) = k THEN l
  ELSE closeLite(l, k)

\* element.focus(): while 'focusout' is dispatched on the element that loses
\* focus, document.activeElement is the body.
focusLite(l, el) ==
  IF el = l.active \/ (el # Body /\ ~LiteRendered(l, el))
  THEN l
  ELSE LET old == l.active
           l1 == [l EXCEPT !.active = Body]
           l2 == IF old = Body THEN l1
                 ELSE handleRootFocusOutLite(l1, LiteRoot(old),
                                             IF el = Body THEN NoElement ELSE el)
       IN [l2 EXCEPT !.active = el]

closeLite(l, k) ==
  IF ~l.expanded[k] THEN l
  ELSE LET l1 == toggleLite(l, k, FALSE)
       IN IF l1.active # Body /\ LiteRoot(l1.active) = k
          THEN focusLite(l1, buttonElement(k))
          ELSE l1

handleButtonPointerOver(l, k, pointerType) ==
  IF pointerType # "mouse" \/ name(k) = NoName \/ ~l.hasOpen[name(k)]
  THEN l
  ELSE openLite(focusLite(l, buttonElement(k)), k)

\* requestAnimationFrame(() => requestAnimationFrame(() => el.focus())).
focusInTwoFrames(l, el) == [l EXCEPT !.focusFrames = Append(@, <<2, el>>)]

handleButtonClick(l, k) ==
  LET isOpen == l.expanded[k]
      l1 == toggleLite(l, k, ~isOpen)
  IN IF ~isOpen THEN focusInTwoFrames(l1, liteItem(k)) ELSE l1

LiteButtonKeys == {"Enter", "Escape", "ArrowDown"}

handleButtonKeyDown(l, k, key) ==
  IF key = "Escape" THEN closeLite(l, k)
  ELSE focusInTwoFrames(openLite(l, k), liteItem(k))

\* The list's 'keydown' listener for Escape pressed on an item.
handleListKeyDownLite(l, k, key) ==
  IF key = "Escape" THEN closeLite(l, k) ELSE l

RECURSIVE PointerDownEachLite(_, _, _)
PointerDownEachLite(l, ks, target) ==
  IF ks = <<>> THEN l
  ELSE PointerDownEachLite(
         IF target # Body /\ LiteRoot(target) = Head(ks) THEN l
         ELSE closeLite(l, Head(ks)),
         Tail(ks), target)

\* One animation frame: each pending callback runs in order; an outer
\* callback queues its inner one for the frame after.
RECURSIVE RunFocusFrames(_, _)
RunFocusFrames(l, fs) ==
  IF fs = <<>> THEN l
  ELSE IF Head(fs)[1] = 2
       THEN RunFocusFrames([l EXCEPT !.focusFrames = Append(@, <<1, Head(fs)[2]>>)],
                           Tail(fs))
       ELSE RunFocusFrames(focusLite(l, Head(fs)[2]), Tail(fs))

LiteStep(l) ==
  /\ lite' = [l EXCEPT !.over = NoOver]
  /\ UNCHANGED <<menuVars, built>>

LiteTask == Len(lite.focusFrames) < MaxFrames

LiteOpen(k) == LiteTask /\ LiteStep(openLite(lite, k))

LiteClose(k) == LiteTask /\ LiteStep(closeLite(lite, k))

LiteClick(k) == LiteTask /\ LiteStep(handleButtonClick(lite, k))

LiteKeyDown(key) ==
  /\ LiteTask
  /\ lite.active \in LiteElements
  /\ LiteRendered(lite, lite.active)
  /\ LiteStep(IF lite.active \in LiteButtons
              THEN handleButtonKeyDown(lite, LiteRoot(lite.active), key)
              ELSE handleListKeyDownLite(lite, LiteRoot(lite.active), key))

LitePointerDown(target) ==
  /\ LiteTask
  /\ target = Body \/ LiteRendered(lite, target)
  /\ LiteStep(PointerDownEachLite(lite, liteOrder, target))

LiteFocus(el) ==
  /\ LiteTask
  /\ el # lite.active
  /\ el = Body \/ LiteRendered(lite, el)
  /\ LiteStep(focusLite(lite, el))

LitePointerOver(k, pointerType) ==
  /\ LiteTask
  /\ lite' = [handleButtonPointerOver(lite, k, pointerType)
                EXCEPT !.over = [menu |-> k, pointerType |-> pointerType,
                                 before |-> [lite EXCEPT !.over = NoOver]]]
  /\ UNCHANGED <<menuVars, built>>

LiteFrame ==
  /\ lite.focusFrames # <<>>
  /\ LiteStep(RunFocusFrames([lite EXCEPT !.focusFrames = <<>>], lite.focusFrames))

InitLite ==
  /\ ariaExpanded = Blank.ariaExpanded
  /\ display = Blank.display
  /\ opacity = Blank.opacity
  /\ animation = Blank.animation
  /\ cleanupPopover = Blank.cleanupPopover
  /\ subscriptions = Blank.subscriptions
  /\ placement = Blank.placement
  /\ computing = Blank.computing
  /\ frames = Blank.frames
  /\ submenuTimer = Blank.submenuTimer
  /\ timers = Blank.timers
  /\ tabindex = Blank.tabindex
  /\ activeElement = Blank.activeElement
  /\ ariaChecked = Blank.ariaChecked
  /\ closeFocus = Blank.closeFocus
  /\ clicked = Blank.clicked
  /\ leftItem = Blank.leftItem
  /\ hoverLeft = Blank.hoverLeft
  /\ lastKey = Blank.lastKey
  /\ keyTarget = Blank.keyTarget
  /\ lastCall = Blank.lastCall
  /\ built = NoRoot
  /\ lite = LiteConstructed

NextLite ==
  \/ \E k \in LiteMenus : LiteOpen(k)
  \/ \E k \in LiteMenus : LiteClose(k)
  \/ \E k \in LiteMenus : LiteClick(k)
  \/ \E key \in LiteButtonKeys : LiteKeyDown(key)
  \/ \E target \in LiteElements \cup {Body} : LitePointerDown(target)
  \/ \E el \in LiteElements \cup {Body} : LiteFocus(el)
  \/ \E k \in LiteMenus, pointerType \in PointerTypes : LitePointerOver(k, pointerType)
  \/ LiteFrame

SpecLite == InitLite /\ [][NextLite]_vars

(***************************************************************************)
(* Vocabulary of the properties.                                           *)
(***************************************************************************)
\* Positions of the pending frame callbacks of m.
PendingFor(m) == {k \in 1..Len(frames) : frames[k][1] = m}

\* The direction of m's most recent effective transition: what
\* aria-expanded will be once the pending callbacks have run.
Requested(m) ==
  IF PendingFor(m) = {}
  THEN ariaExpanded[m]
  ELSE frames[CHOOSE k \in PendingFor(m) : \A j \in PendingFor(m) : j <= k][2]

\* This step made a transition to open take effect on m.
Opened(m) ==
  IF HasTrigger(m)
  THEN \E k \in (Len(frames) + 1)..Len(frames') : frames'[k] = <<m, TRUE>>
  ELSE OpenCall(m)

\* m is closed once pending callbacks and its animation have completed.
SettlesClosed(m) ==
  /\ ~Requested(m)
  /\ \/ animation[m] = "close"
     \/ animation[m] = "null" /\ display[m] = "none"

\* The open/closed state of an instance.
OpenState(m) ==
  <<ariaExpanded[m], Requested(m), display[m], opacity[m], animation[m],
    cleanupPopover[m]>>

Stable == frames = <<>> /\ computing = {} /\ \A m \in MenuSet : animation[m] = "null"

ZeroItems(m) == {i \in Range(itemElements(m)) : tabindex[i] = "0"}

\* The group a radio item was filed under at construction.
GroupOf(el) ==
  Range(radioItemElementsByGroup(Owner(el))[ConstructedGroup(Owner(el), el)])

(***************************************************************************)
(* Properties.                                                             *)
(***************************************************************************)

\* C1: calling open() on an instance with a trigger whose most recent
\* effective transition was an open (whether or not the deferred
\* aria-expanded update has run), or close() on one whose most recent
\* effective transition was a close, changes nothing: no attribute, style,
\* focus, animation, positioning subscription or timer, of this or of any
\* other instance.
C1_IdempotentCalls ==
  [][\A m \in TopLevel \cap Triggered :
       (\/ Requested(m) /\ OpenCall(m)
        \/ ~Requested(m) /\ CloseCall(m))
       => UNCHANGED domVars]_vars

\* C2: whenever a transition to open takes effect on instance a, every
\* other instance b that has a trigger and whose root neither contains nor
\* is contained by a's root is closed once the pending frame callbacks have
\* run.
C2_OpenClosesUnrelated ==
  [][\A a \in MenuSet : \A b \in Triggered :
       (~Related(a, b) /\ Opened(a)) => ~Requested(b)']_vars

\* C3: whenever no frame callback is pending, any two open instances that
\* have a trigger are ancestor and descendant of each other.
C3_SingleOpenBranch ==
  frames = <<>> =>
    \A a \in Triggered : \A b \in Triggered :
      (ariaExpanded[a] /\ ariaExpanded[b]) => Related(a, b)

\* C4: a transition to open taking effect on instance a neither closes nor
\* otherwise changes the open/closed state of an instance whose root lies
\* inside a's root, also when a is a trigger-less root.
C4_OpenKeepsDescendants ==
  [][\A a \in MenuSet : \A d \in Triggered :
       (d # a /\ RootContainsRoot(a, d) /\ Opened(a)) => UNCHANGED OpenState(d)]_vars

\* C5: after close() is called on an open instance p (aria-expanded "true",
\* no callback pending for it), every submenu below p is closed once the
\* pending frame callbacks and animations have completed.
C5_CloseClosesDescendants ==
  [][\A p \in TopLevel \cap Triggered : \A d \in Triggered :
       (/\ d # p
        /\ RootContainsRoot(p, d)
        /\ ariaExpanded[p]
        /\ PendingFor(p) = {}
        /\ CloseCall(p)) => SettlesClosed(d)']_vars

\* C6: when a transition to closed takes effect on an instance p that has a
\* trigger (by close(), Escape, outside pointer-down or an exclusivity
\* sweep) while focus is inside a displayed submenu of p, the focused
\* element when that close returns is p's trigger.
C6_FocusReturnsToParentTrigger == closeFocus # "elsewhere"

\* A handler closed a parent whose open submenu held focus, and focus went
\* to the parent's trigger.
C6_ParentClosedOverFocusedSubmenu ==
  closeFocus = "trigger" /\ activeElement = triggerElement("A")

\* The keys that close a submenu from one of its items, as <<key, shiftKey>>.
SubmenuCloseKeys == {<<"Escape", FALSE>>, <<"ArrowLeft", FALSE>>, <<"Tab", TRUE>>}

\* C7: Escape, ArrowLeft or Shift+Tab pressed while focus is on an item of
\* an open submenu closes that submenu only: the submenu is closed, every
\* ancestor that was open stays open and displayed, and focus lands on the
\* submenu's trigger.
C7_SubmenuKeyClosesOnlySubmenu ==
  [][\A sub \in {m \in Triggered : isSubmenu(m)} : \A k \in SubmenuCloseKeys :
       (/\ activeElement \in Range(focusablesOf(sub))
        /\ ariaExpanded[sub]
        /\ PendingFor(sub) = {}
        /\ KeyDown(k[1], k[2]))
       => /\ ~Requested(sub)'
          /\ activeElement' = triggerElement(sub)
          /\ \A p \in Triggered :
               (p # sub /\ RootContainsRoot(p, sub) /\ Requested(p))
               => (Requested(p)' /\ UNCHANGED <<display[p], animation[p]>>)]_vars

\* C8: an item the pointer left after its hover timer was armed, and has not
\* come over again, has no live timer: that timer cannot fire.
C8_PointerOutCancelsTimer == hoverLeft = {}

\* The pointer has just left an item whose timer was armed, and no timer is
\* live for that item.
C8_PointerLeftArmedItem ==
  leftItem \in Items /\ \A m \in MenuSet : leftItem \notin timers[m]

\* C9: at every stable moment an instance without a trigger has exactly one
\* item with tabindex "0"; an instance with a trigger has every item at
\* "-1", or exactly one item at "0" and that item has focus.
C9_RovingTabindex ==
  Stable =>
    \A m \in MenuSet :
      IF ~HasTrigger(m)
      THEN Cardinality(ZeroItems(m)) = 1
      ELSE ZeroItems(m) = {} \/ ZeroItems(m) = {activeElement}

\* C10: after a click on a radio item, the clicked item has
\* aria-checked "true" and every other item of the group it was filed under
\* at construction has "false".
C10_RadioGroupExclusive ==
  clicked # NoElement =>
    \A i \in GroupOf(clicked) : ariaChecked[i] = IF i = clicked THEN "true" ELSE "false"

\* The checked state after a flip: checked becomes unchecked; unchecked, be
\* it "false" or no attribute, becomes checked.
Flipped(v) == IF v = "true" THEN "false" ELSE "true"

\* C11: a click on a checkbox item flips that item's checked state (an item
\* without aria-checked counts as unchecked and becomes checked) and changes
\* the aria-checked of no other item.
C11_CheckboxClickFlips ==
  [][\A el \in CheckboxItems :
       CheckboxClick(el) =>
         /\ ariaChecked'[el] = Flipped(ariaChecked[el])
         /\ \A i \in CheckedItems \ {el} : ariaChecked'[i] = ariaChecked[i]]_vars

\* The items of an instance that are neither aria-disabled nor disabled, in
\* document order.
EnabledItems(m) == SelectSeq(itemElements(m), LAMBDA i : i \notin Disabled)

\* The enabled item after (dir = 1) or before (dir = -1) el, wrapping round.
Neighbour(m, el, dir) ==
  LET es == EnabledItems(m)
      n == Len(es)
      k == CHOOSE j \in 1..n : es[j] = el
  IN es[((k - 1 + dir + n) % n) + 1]

RECURSIVE Walk(_, _, _, _)
Walk(m, el, dir, steps) ==
  IF steps = 0 THEN el ELSE Walk(m, Neighbour(m, el, dir), dir, steps - 1)

\* C12: after ArrowDown pressed on a focusable item of a list, focus is on
\* the next focusable item (the first after the last); after ArrowUp, on the
\* previous one (the last before the first); disabled items are skipped; and
\* as many steps as the list has focusable items lead back to the start.
C12_ArrowKeysWrap ==
  \A m \in MenuSet :
    /\ (lastKey = "ArrowDown" /\ keyTarget \in Range(EnabledItems(m)))
         => activeElement = Neighbour(m, keyTarget, 1)
    /\ (lastKey = "ArrowUp" /\ keyTarget \in Range(EnabledItems(m)))
         => activeElement = Neighbour(m, keyTarget, -1)
    /\ \A el \in Range(EnabledItems(m)) : \A dir \in {1, -1} :
         Walk(m, el, dir, Len(EnabledItems(m))) = el

\* ArrowDown was pressed on the last focusable item of the list that has a
\* disabled item, and focus wrapped to the first.
C12_WrappedPastDisabled ==
  lastKey = "ArrowDown" /\ keyTarget = "t3" /\ activeElement = "t1"

\* The focusable items of m whose initial is c, in document order.
Matches(m, c) == SelectSeq(EnabledItems(m), LAMBDA i : Initial(i) = c)

\* Position of an item in the document order of its list.
Position(m, el) == CHOOSE j \in 1..Len(itemElements(m)) : itemElements(m)[j] = el

\* The first match strictly after el, or the first match when none follows.
NextMatch(m, el, c) ==
  LET ms == Matches(m, c)
      after == {j \in 1..Len(ms) : Position(m, ms[j]) > Position(m, el)}
  IN IF after # {} THEN ms[CHOOSE j \in after : \A i \in after : j <= i] ELSE ms[1]

\* C13: after a printable character c is pressed on a focusable item of a
\* list whose instance has a focusable item with initial c, focus is on the
\* first such item strictly after the pressed item in document order, or on
\* the first such item when none follows; so repeated presses go through
\* the matches in document order and wrap to the first.
C13_TypeAheadCycles ==
  \A m \in MenuSet : \A c \in TypeKeys :
    /\ (lastKey = c /\ keyTarget \in Range(EnabledItems(m)) /\ Matches(m, c) # <<>>)
         => activeElement = NextMatch(m, keyTarget, c)
    /\ \A j \in 1..Len(Matches(m, c)) :
         NextMatch(m, Matches(m, c)[j], c) = Matches(m, c)[(j % Len(Matches(m, c))) + 1]

\* The character was pressed on the last match of a list with two matches
\* around a non-matching item, and focus wrapped to the first match.
C13_WrappedToFirstMatch ==
  lastKey = "a" /\ keyTarget = "t3" /\ activeElement = "t1"

\* C14: a matching character pressed in a list while the active element is
\* not one of the instance's focusable items (here: it is an item of a
\* nested list that has no match of its own, so the keydown reaches the
\* instance's list) moves focus to the instance's first focusable match.
C14_TypeAheadFromNoSelection ==
  \A m \in MenuSet : \A c \in TypeKeys :
    (/\ lastKey = c
     /\ Matches(m, c) # <<>>
     /\ \E k \in 1..Len(submenus(m)) :
          /\ keyTarget \in Range(itemElements(submenus(m)[k]))
          /\ Matches(submenus(m)[k], c) = <<>>)
    => activeElement = Matches(m, c)[1]

\* C15: after Enter or ArrowDown pressed on the trigger of a top-level
\* instance that has a focusable item, the instance is open once the pending
\* frame callbacks have run (aria-expanded "true", list shown and not being
\* closed) with focus on its first focusable item; after ArrowUp, with focus
\* on its last focusable item.  (Space takes the same path as Enter.)
C15_TriggerKeysOpen ==
  \A m \in TopLevel \cap Triggered :
    (/\ keyTarget = triggerElement(m)
     /\ lastKey \in {"Enter", "ArrowDown", "ArrowUp"}
     /\ EnabledItems(m) # <<>>)
    => /\ Requested(m)
       /\ display[m] = "block"
       /\ animation[m] # "close"
       /\ activeElement = IF lastKey = "ArrowUp"
                          THEN EnabledItems(m)[Len(EnabledItems(m))]
                          ELSE EnabledItems(m)[1]

\* C16: after Escape pressed on the trigger of a top-level instance, the
\* instance is closed once callbacks and animations have completed (an open
\* instance was closed by the key, a closed one was left closed).
C16_EscapeOnTriggerCloses ==
  \A m \in TopLevel \cap Triggered :
    (lastKey = "Escape" /\ keyTarget = triggerElement(m)) => SettlesClosed(m)

\* m is open: its most recent effective transition was an open.
IsOpen(m) == Requested(m) /\ display[m] = "block" /\ animation[m] # "close"

\* C17: for an open instance with a trigger, a pointer-down outside its
\* root, or a focus move from inside its root to outside it (or to nothing),
\* leaves the instance closed with every item at tabindex "-1"; a
\* pointer-down or focus move that stays inside the root does not close it;
\* the list of a trigger-less instance is never hidden.
C17_OutsideEventsClose ==
  [][/\ \A m \in Triggered :
          /\ (IsOpen(m) /\ \E target \in (Elements \cup {Body}) \ RootElements(m) :
                               PointerDown(target))
               => (SettlesClosed(m)' /\ ZeroItems(m)' = {})
          /\ (IsOpen(m) /\ activeElement \in RootElements(m)
                /\ \E el \in (Elements \cup {Body}) \ RootElements(m) : UserFocus(el))
               => (SettlesClosed(m)' /\ ZeroItems(m)' = {})
          /\ (IsOpen(m) /\ \E target \in RootElements(m) : PointerDown(target))
               => IsOpen(m)'
          /\ (IsOpen(m) /\ activeElement \in RootElements(m)
                /\ \E el \in RootElements(m) : UserFocus(el))
               => IsOpen(m)'
     /\ \A m \in MenuSet \ Triggered : display'[m] = "block"]_vars


\* m is closed and its close transition has finished: the list is hidden.
ClosedAndHidden(m) ==
  ~Requested(m) /\ animation[m] = "null" /\ display[m] = "none"

\* C18: in every reachable state, the focused element is not an item of an
\* instance with a trigger that is closed and whose close transition has
\* finished (focus is never left inside a hidden list).
C18_NoFocusInHiddenList ==
  \A m \in Triggered :
    ClosedAndHidden(m) => activeElement \notin Range(itemElements(m))


\* The root's markup lacks the list, or its list holds no item.
Malformed(mk) == ~mk.list \/ mk.items = 0

\* C19: new Menu(root) on a root with no list, or with a list that holds no
\* items, raises no error and leaves an instance with no listener attached,
\* no attribute written and no entry in the registry.
C19_InertConstruction ==
  (built.phase \notin {"none", "markup"} /\ Malformed(built.markup)) =>
    /\ built.phase = "constructed"
    /\ built.listeners = {}
    /\ built.written = {}
    /\ ~built.registered


\* This step made a transition to closed take effect on m.
Closed(m) ==
  \E k \in (Len(frames) + 1)..Len(frames') : frames'[k] = <<m, FALSE>>

\* C20: a step in which a close takes effect on an instance, with or without
\* submenus, leaves no hover-intent timer of that instance live (so none
\* armed before the close can fire after it); the submenus a close closes
\* with it are instances a close took effect on as well.
C20_CloseCancelsHoverTimers ==
  [][\A m \in Triggered : Closed(m) => timers'[m] = {}]_vars


\* C21: when the hover-intent timer armed on item I of parent P expires, the
\* submenu of P whose trigger is I is left open and every other submenu of P
\* is left closed (so hover leaves at most one submenu of P open).
C21_TimerOpensOnlyHoveredSubmenu ==
  [][\A p \in MenuSet : \A item \in Range(itemElements(p)) :
       TimerFire(p, item) =>
         \A k \in 1..Len(submenus(p)) :
           Requested(submenus(p)[k])' = (triggerElement(submenus(p)[k]) = item)]_vars


\* C22: the transition that completes on an instance is the last one
\* started: the completion of a transition hides the list exactly when the
\* last transition that took effect was a close, and when it was an open
\* (whatever close it superseded) the list stays displayed and the placement
\* attribute is left as it was.
C22_LastTransitionDecides ==
  [][\A m \in Triggered :
       AnimationFinish(m) =>
         /\ Requested(m) => (display'[m] = "block" /\ placement'[m] = placement[m])
         /\ ~Requested(m) => display'[m] = "none"]_vars

\* An open of A is in flight that superseded a close: the placement
\* attribute of the earlier open is still set while the new position is
\* being computed.
C22_OpenSupersededClose ==
  /\ animation["A"] = "open" /\ "A" \in computing /\ placement["A"]
  /\ frames = <<<<"A", TRUE>>>> /\ ~ariaExpanded["A"]


\* C23: whenever the last transition that took effect on an instance with
\* a trigger is a close and that transition has completed, the list is
\* hidden and the placement attribute and transform-origin are absent: no
\* position computation, started while the instance was open or by the
\* autoUpdate subscription, writes them after the completion.
C23_ClosedListLosesPlacement ==
  \A m \in Triggered :
    (~Requested(m) /\ animation[m] = "null")
      => (display[m] = "none" /\ ~placement[m] /\ m \notin computing)

\* A close took effect on A while a position computation started by the
\* subscription was still unresolved.
C23_ComputePendingAfterClose ==
  ~Requested("A") /\ animation["A"] = "close" /\ "A" \in computing

\* C24: an instance with a trigger has exactly one live autoUpdate
\* subscription while the last transition that took effect on it is an open
\* (however many opens took effect in a row) and none while it is a close or
\* no transition was made.
C24_OneSubscriptionWhileOpen ==
  \A m \in Triggered : subscriptions[m] = IF Requested(m) THEN 1 ELSE 0

\* Two opens of A took effect in a row (both aria-expanded writes pending)
\* and A holds its subscription.
C24_OpenedTwiceInARow ==
  frames = <<<<"A", TRUE>>, <<"A", TRUE>>>> /\ cleanupPopover["A"]

\* C25: aria-expanded changes only when the pending frame callbacks run, and
\* then every trigger holds the value of the last transition that took
\* effect on its instance; until then it keeps its old value.  An open() or
\* close() that passes the guard queues exactly one callback for its
\* instance, and one that does not queues none.
C25_ExpandedWrittenInNextFrame ==
  [][/\ ariaExpanded' # ariaExpanded
          => /\ frames # <<>> /\ frames' = <<>>
             /\ \A m \in Triggered : ariaExpanded'[m] = Requested(m)
     /\ \A m \in TopLevel \cap Triggered :
          /\ OpenCall(m) =>
               Cardinality(PendingFor(m))' =
                 Cardinality(PendingFor(m)) + (IF ariaExpanded[m] THEN 0 ELSE 1)
          /\ CloseCall(m) =>
               Cardinality(PendingFor(m))' =
                 Cardinality(PendingFor(m)) + (IF ariaExpanded[m] THEN 1 ELSE 0)]_vars

\* An open of A took effect and its frame has not run: the list is
\* displayed while aria-expanded is still "false".
C25_OpenBeforeItsFrame ==
  frames = <<<<"A", TRUE>>>> /\ ~ariaExpanded["A"] /\ display["A"] = "block"

\* C26: in every reachable state of the button menus, for every name n,
\* Menu.hasOpen[n] is true exactly when at least one instance named n is
\* open.
C26_HasOpenTracksOpenInstances ==
  \A n \in Names :
    lite.hasOpen[n] <=> \E k \in LiteMenus : name(k) = n /\ lite.expanded[k]

\* C27: a mouse pointer-over on the button of a closed named instance B
\* while another instance with B's name is open leaves B open, B's button
\* focused and every other instance of that name closed; a pointer-over
\* while no instance of that name is open, or with another pointer type, or
\* on an unnamed instance, changes nothing.
C27_PointerOverTakesOver ==
  lite.over # NoOver =>
    LET b == lite.over.menu
        before == lite.over.before
        others == {a \in LiteMenus \ {b} : name(a) = name(b) /\ before.expanded[a]}
    IN /\ (/\ lite.over.pointerType = "mouse"
           /\ name(b) # NoName
           /\ ~before.expanded[b]
           /\ others # {})
            => /\ lite.expanded[b]
               /\ lite.active = buttonElement(b)
               /\ \A a \in others : ~lite.expanded[a]
       /\ (\/ lite.over.pointerType # "mouse"
           \/ name(b) = NoName
           \/ \A a \in LiteMenus : name(a) = name(b) => ~before.expanded[a])
            => [lite EXCEPT !.over = NoOver] = before

\* C28: after open() or close() was called on an instance with a trigger,
\* the last transition that took effect on it has the direction of the call:
\* once the pending callbacks and the transition have completed the instance
\* is open after open() and closed after close().
C28_LastCallWins ==
  (lastCall # <<>> /\ HasTrigger(lastCall[1])) => Requested(lastCall[1]) = lastCall[2]

\* C29: in every reachable state in which an instance with a trigger has no
\* frame callback pending and no transition in flight, its list is
\* displayed exactly when its trigger's aria-expanded is "true", and the
\* list carries no inline opacity.
C29_DisplayAgreesWithExpanded ==
  \A m \in Triggered :
    (PendingFor(m) = {} /\ animation[m] = "null")
      => ((display[m] = "block") = ariaExpanded[m] /\ opacity[m] = "")

\* A was opened, its frame callback ran and its transition completed.
C29_OpenAndQuiescent ==
  /\ ariaExpanded["A"] /\ PendingFor("A") = {} /\ animation["A"] = "null"
  /\ display["A"] = "block" /\ opacity["A"] = "" /\ placement["A"]

\* C30: in every reachable state with no frame callback pending, an open
\* submenu has every ancestor instance that has a trigger open.
C30_OpenSubmenuHasOpenAncestors ==
  frames = <<>> =>
    \A p \in Triggered : \A d \in Triggered :
      (d # p /\ RootContainsRoot(p, d) /\ ariaExpanded[d]) => ariaExpanded[p]


(***************************************************************************)
(* Always-visible instances.                                               *)
(***************************************************************************)
\* C31: the list of an instance without a trigger stays visible whatever
\* open() and close() calls and exclusivity sweeps have run: it is never left
\* with display none, nor with the inline opacity "0" that only the 'finish'
\* listener of a transition removes (an instance without a trigger starts no
\* transition).
C31_TriggerlessListStaysVisible ==
  \A m \in MenuSet \ Triggered :
    /\ display[m] = "block"
    /\ (opacity[m] = "0" => animation[m] # "null")


(***************************************************************************)
(* Items that are not focusable: the always-visible menu T, whose item t2  *)
(* carries aria-disabled="true", and its submenu U, under the pointer and  *)
(* the keyboard.  The user's own focus moves go to the tab stop only, so   *)
(* every other focus move is the menu's.                                   *)
(***************************************************************************)
\* The pointer and the calls stay on the tree of root T.
DisabledMenus == {"T", "U"}

NextDisabled ==
  \/ \E m \in TopLevel \cap DisabledMenus : OpenCall(m)
  \/ \E m \in TopLevel \cap DisabledMenus : CloseCall(m)
  \/ RunFrame
  \/ \E m \in Triggered : AnimationFinish(m)
  \/ \E m \in Triggered : ResolveCompute(m)
  \/ \E el \in TabStops \cap RootElements("T") : UserFocus(el)
  \/ \E key \in PressedKeys : KeyDown(key, FALSE)
  \/ \E m \in DisabledMenus, item \in Items : PointerOver(m, item)
  \/ \E m \in DisabledMenus, item \in Items : PointerOut(m, item)
  \/ \E m \in DisabledMenus, item \in Items : TimerFire(m, item)

SpecDisabled == Init /\ [][NextDisabled]_vars

\* C32: the menu never moves focus to an item that is not focusable, and
\* never gives such an item tabindex "0": in every reachable state no
\* disabled item holds focus or is the tab stop.
C32_DisabledItemNeverFocused ==
  \A el \in Items :
    ~isFocusable(el) => (activeElement # el /\ tabindex[el] # "0")


(***************************************************************************)
(* The animated single-level menu (menu.js): one instance J named "n",     *)
(* with button bJ and items j1, j2, and a focusable element x of the page  *)
(* outside its root.  aria-expanded is written in the next frame, the list *)
(* is displayed inline and fades in and out.                               *)
(***************************************************************************)
AnimatedButton == "bJ"
AnimatedItems == <<"j1", "j2">>
AnimatedOutside == "x"
AnimatedRoot == {AnimatedButton} \cup Range(AnimatedItems)
AnimatedElements == AnimatedRoot \cup {AnimatedOutside}

\* The page after the constructor ran; the stylesheet hides the list.
AnimatedConstructed ==
  [page |-> "animated",
   expanded |-> FALSE,
   hasOpen |-> FALSE,
   display |-> "none",
   opacity |-> "",
   animation |-> "null",
   active |-> Body,
   callbacks |-> <<>>]

\* The button and the outside element are always rendered, an item while
\* the list is displayed.
AnimatedRendered(l, el) ==
  \/ el \in {AnimatedButton, AnimatedOutside}
  \/ el \in Range(AnimatedItems) /\ l.display = "block"

\* String(isOpen)
StringOf(b) == IF b THEN "true" ELSE "false"

toggleAnimated(l, isOpen) ==
  [l EXCEPT !.hasOpen = isOpen,
            !.callbacks = Append(@, <<"expanded", StringOf(isOpen)>>),
            !.display = IF isOpen THEN "block" ELSE @,
            !.opacity = IF isOpen THEN "0" ELSE @,
            !.animation = IF isOpen THEN "open" ELSE "close"]

openAnimated(l) == IF l.expanded THEN l ELSE toggleAnimated(l, TRUE)

RECURSIVE focusAnimated(_, _), closeAnimated(_)

\* The 'focusout' listener of the root; relatedTarget is what gains focus.
handleRootFocusOutAnimated(l, related) ==
  IF related = NoElement \/ ~l.expanded THEN l
  ELSE IF related \in AnimatedRoot THEN l
  ELSE closeAnimated(l)

\* element.focus(): while 'focusout' is dispatched on the element that loses
\* focus, document.activeElement is the body.
focusAnimated(l, el) ==
  IF el = l.active \/ (el # Body /\ ~AnimatedRendered(l, el))
  THEN l
  ELSE LET old == l.active
           l1 == [l EXCEPT !.active = Body]
           l2 == IF old \in AnimatedRoot
                 THEN handleRootFocusOutAnimated(l1, IF el = Body THEN NoElement ELSE el)
                 ELSE l1
       IN [l2 EXCEPT !.active = el]

closeAnimated(l) ==
  IF ~l.expanded THEN l
  ELSE LET l1 == toggleAnimated(l, FALSE)
       IN IF l1.active \in AnimatedRoot
          THEN focusAnimated(l1, AnimatedButton)
          ELSE l1

handleOutsidePointerDownAnimated(l, target) ==
  IF target \in AnimatedRoot THEN l ELSE closeAnimated(l)

\* requestAnimationFrame(() => requestAnimationFrame(() => el.focus())).
focusInTwoFramesAnimated(l, el) ==
  [l EXCEPT !.callbacks = Append(@, <<"outer", el>>)]

handleButtonClickAnimated(l) ==
  LET isOpen == l.expanded
      l1 == toggleAnimated(l, ~isOpen)
  IN IF ~isOpen THEN focusInTwoFramesAnimated(l1, AnimatedItems[1]) ELSE l1

AnimatedButtonKeys == {"Enter", "Escape", "ArrowUp"}

handleButtonKeyDownAnimated(l, key) ==
  IF key = "Escape" THEN closeAnimated(l)
  ELSE focusInTwoFramesAnimated(openAnimated(l),
         AnimatedItems[IF key # "ArrowUp" THEN 1 ELSE Len(AnimatedItems)])

\* The list's 'keydown' listener for Escape pressed on an item.
handleListKeyDownAnimated(l, key) ==
  IF key = "Escape" THEN closeAnimated(l) ELSE l

\* One animation frame: each pending callback runs in order; a callback
\* requested meanwhile waits for the frame after.
RECURSIVE RunAnimatedCallbacks(_, _)
RunAnimatedCallbacks(l, cs) ==
  IF cs = <<>> THEN l
  ELSE LET c == Head(cs)
           l1 == CASE c[1] = "expanded" -> [l EXCEPT !.expanded = (c[2] = "true")]
                   [] c[1] = "outer" -> [l EXCEPT !.callbacks = Append(@, <<"inner", c[2]>>)]
                   [] OTHER -> focusAnimated(l, c[2])
       IN RunAnimatedCallbacks(l1, Tail(cs))

\* The 'finish' listener of the transition in flight, and what the browser
\* does with focus when the list it hides holds the focused element.
finishAnimated(l, how) ==
  LET l1 == [l EXCEPT !.animation = "null",
                      !.display = IF l.animation = "close" THEN "none" ELSE @,
                      !.opacity = ""]
  IN IF l1.active \in Range(AnimatedItems) /\ l1.display = "none" /\ how # "kept"
     THEN [l1 EXCEPT !.active = Body]
     ELSE l1

AnimatedStep(l) ==
  /\ lite' = l
  /\ UNCHANGED <<menuVars, built>>

AnimatedTask == Len(lite.callbacks) < MaxFrames

AnimatedOpen == AnimatedTask /\ AnimatedStep(openAnimated(lite))

AnimatedClose == AnimatedTask /\ AnimatedStep(closeAnimated(lite))

AnimatedClick == AnimatedTask /\ AnimatedStep(handleButtonClickAnimated(lite))

AnimatedKeyDown(key) ==
  /\ AnimatedTask
  /\ lite.active \in AnimatedRoot
  /\ AnimatedRendered(lite, lite.active)
  /\ AnimatedStep(IF lite.active = AnimatedButton
                  THEN handleButtonKeyDownAnimated(lite, key)
                  ELSE handleListKeyDownAnimated(lite, key))

AnimatedPointerDown(target) ==
  /\ AnimatedTask
  /\ AnimatedStep(handleOutsidePointerDownAnimated(lite, target))

AnimatedFocus(el) ==
  /\ AnimatedTask
  /\ el # lite.active
  /\ el = Body \/ AnimatedRendered(lite, el)
  /\ AnimatedStep(focusAnimated(lite, el))

AnimatedFrame ==
  /\ lite.callbacks # <<>>
  /\ AnimatedStep(RunAnimatedCallbacks([lite EXCEPT !.callbacks = <<>>], lite.callbacks))

AnimatedFinish(how) ==
  /\ lite.animation # "null"
  /\ AnimatedStep(finishAnimated(lite, how))

InitAnimated ==
  /\ ariaExpanded = Blank.ariaExpanded
  /\ display = Blank.display
  /\ opacity = Blank.opacity
  /\ animation = Blank.animation
  /\ cleanupPopover = Blank.cleanupPopover
  /\ subscriptions = Blank.subscriptions
  /\ placement = Blank.placement
  /\ computing = Blank.computing
  /\ frames = Blank.frames
  /\ submenuTimer = Blank.submenuTimer
  /\ timers = Blank.timers
  /\ tabindex = Blank.tabindex
  /\ activeElement = Blank.activeElement
  /\ ariaChecked = Blank.ariaChecked
  /\ closeFocus = Blank.closeFocus
  /\ clicked = Blank.clicked
  /\ leftItem = Blank.leftItem
  /\ hoverLeft = Blank.hoverLeft
  /\ lastKey = Blank.lastKey
  /\ keyTarget = Blank.keyTarget
  /\ lastCall = Blank.lastCall
  /\ built = NoRoot
  /\ lite = AnimatedConstructed

NextAnimated ==
  \/ AnimatedOpen
  \/ AnimatedClose
  \/ AnimatedClick
  \/ \E key \in AnimatedButtonKeys : AnimatedKeyDown(key)
  \/ \E target \in {Body, AnimatedOutside} : AnimatedPointerDown(target)
  \/ \E el \in AnimatedElements \cup {Body} : AnimatedFocus(el)
  \/ AnimatedFrame
  \/ \E how \in FocusFixups : AnimatedFinish(how)

SpecAnimated == InitAnimated /\ [][NextAnimated]_vars

\* What the instance was last asked to be: the value of the last pending
\* aria-expanded callback, or the attribute when none is pending.
RequestedAnimated(l) ==
  LET es == SelectSeq(l.callbacks, LAMBDA c : c[1] = "expanded")
  IN IF es = <<>> THEN l.expanded ELSE es[Len(es)][2] = "true"

\* C33: the focus move deferred by two frames never moves focus into a
\* closed menu: when the instance was closed before the deferred callback
\* runs and focus was not on the callback's item, focus is not on that item
\* after the frame in which the callback ran.
C33_DeferredFocusStaysOutOfClosedMenu ==
  [][\A el \in Range(AnimatedItems) :
       (/\ <<"inner", el>> \in Range(lite.callbacks)
        /\ <<"inner", el>> \notin Range(lite'.callbacks)
        /\ ~RequestedAnimated(lite)
        /\ lite.active # el)
         => lite'.active # el]_vars

=============================================================================
